---- MODULE Spec2Model ----
(***************************************************************************)
(* One run of dashboard.py: the three collections are fetched from the     *)
(* Directus backend, the bookings and coupons are normalised and filtered, *)
(* the slot fields of the bookings are resolved, calendar features are     *)
(* derived and the booking, coupon and slot aggregates are computed.       *)
(*                                                                         *)
(* A table (a pandas DataFrame) is [cols, rows]: the set of its column     *)
(* names and the sequence of its rows.  Every row carries every field; a   *)
(* field whose column is not in cols holds its null and is never read.     *)
(* Timestamps are minutes since 2024-01-01 00:00.  Strings that the code   *)
(* searches (the e-mail addresses) are sequences of one-character strings. *)
(* The API token is taken to be configured, so the run gets to the fetches.*)
(***************************************************************************)
EXTENDS Integers, Sequences, FiniteSets, TLC

VARIABLES directus, pc, df, coupons_df, slots_df, signals,
          summary, monthly_bookings, weekly_bookings, hourly_bookings,
          daily_bookings, kort_usage, monthly_slots

vars == <<directus, pc, df, coupons_df, slots_df, signals,
          summary, monthly_bookings, weekly_bookings, hourly_bookings,
          daily_bookings, kort_usage, monthly_slots>>

-----------------------------------------------------------------------------
(* Bounds of the model. *)

\* The largest number of records a collection holds.
MaxRows == 2

-----------------------------------------------------------------------------
(* Null values. *)

\* None / NaN in a column of strings.
NULL == "<null>"
\* A key that a JSON object does not have.
NOKEY == "<nokey>"
\* pandas' NaT, and a missing or null timestamp before conversion.
NaT == -1
\* A timestamp key that a slot object does not have.
NoTimeKey == -2
\* NaN in a numeric column.
NaN == -1000000
\* A value of a numeric field that is not a number (a string, an object).
NonNumeric == -2000000
\* None in a column of e-mail addresses.
NullEmail == <<"<null>">>
\* The 'email' key that a user object does not have.
NoEmailKey == <<"<nokey>">>

-----------------------------------------------------------------------------
(* Strings: str.lower() and str.contains(). *)

UpperCase == <<"A","B","C","D","E","F","G","H","I","J","K","L","M",
               "N","O","P","Q","R","S","T","U","V","W","X","Y","Z">>
LowerCase == <<"a","b","c","d","e","f","g","h","i","j","k","l","m",
               "n","o","p","q","r","s","t","u","v","w","x","y","z">>

LowerChar(c) ==
    IF \E i \in 1..Len(UpperCase) : UpperCase[i] = c
    THEN LowerCase[CHOOSE i \in 1..Len(UpperCase) : UpperCase[i] = c]
    ELSE c

Lower(s) == [i \in 1..Len(s) |-> LowerChar(s[i])]

Contains(s, pat) ==
    \E i \in 1..(Len(s) - Len(pat) + 1) : SubSeq(s, i, i + Len(pat) - 1) = pat

\* 'frej.andreassen@gmail.com'
TestAccount == <<"f","r","e","j",".","a","n","d","r","e","a","s","s","e","n",
                 "@","g","m","a","i","l",".","c","o","m">>
\* "unknown"
Unknown == <<"u","n","k","n","o","w","n">>
\* excluded_users = ['frej', 'andre', 'oscar', 'charl', 'jenny']
excluded_users == { <<"f","r","e","j">>, <<"a","n","d","r","e">>,
                    <<"o","s","c","a","r">>, <<"c","h","a","r","l">>,
                    <<"j","e","n","n","y">> }

-----------------------------------------------------------------------------
(* Calendar: the .dt accessors of a timestamp column. *)

IsLeap(y) == (y % 4 = 0 /\ y % 100 # 0) \/ y % 400 = 0

DaysInMonth(y, m) ==
    IF m = 2 THEN (IF IsLeap(y) THEN 29 ELSE 28)
    ELSE IF m \in {4, 6, 9, 11} THEN 30 ELSE 31

DaysInYear(y) == IF IsLeap(y) THEN 366 ELSE 365

EpochYear == 2024

RECURSIVE DaysBeforeYear(_)
DaysBeforeYear(y) == IF y <= EpochYear THEN 0 ELSE DaysBeforeYear(y - 1) + DaysInYear(y - 1)

RECURSIVE DaysBeforeMonth(_, _)
DaysBeforeMonth(y, m) == IF m <= 1 THEN 0 ELSE DaysBeforeMonth(y, m - 1) + DaysInMonth(y, m - 1)

\* The timestamp y-m-d h:mi.
DateTime(y, m, d, h, mi) ==
    (DaysBeforeYear(y) + DaysBeforeMonth(y, m) + (d - 1)) * 1440 + h * 60 + mi

DayNumber(t) == t \div 1440

RECURSIVE YearFrom(_, _)
YearFrom(y, d) == IF d < DaysInYear(y) THEN y ELSE YearFrom(y + 1, d - DaysInYear(y))

RECURSIVE MonthFrom(_, _, _)
MonthFrom(y, m, d) == IF d < DaysInMonth(y, m) THEN m ELSE MonthFrom(y, m + 1, d - DaysInMonth(y, m))

\* .dt.year and .dt.month: NaN for NaT.
DtYear(t) == IF t = NaT THEN NaN ELSE YearFrom(EpochYear, DayNumber(t))
DtMonth(t) ==
    IF t = NaT THEN NaN
    ELSE LET y == YearFrom(EpochYear, DayNumber(t))
         IN  MonthFrom(y, 1, DayNumber(t) - DaysBeforeYear(y))

\* .dt.hour: NaN for NaT.
DtHour(t) == IF t = NaT THEN NaN ELSE (t % 1440) \div 60

\* The day of the week, 0 for Monday: 2024-01-01 is a Monday.
Weekday(t) == DayNumber(t) % 7

\* day_order = ['Måndag', 'Tisdag', 'Onsdag', 'Torsdag', 'Fredag', 'Lördag', 'Söndag']
day_order == <<"Måndag", "Tisdag", "Onsdag", "Torsdag", "Fredag", "Lördag", "Söndag">>

\* .dt.day_name(locale='sv_SE'), or the English name mapped to Swedish: NaN for NaT.
DayName(t) == IF t = NaT THEN NULL ELSE day_order[Weekday(t) + 1]

\* The number of ISO weeks of a year: 53 when it starts on a Thursday, or on
\* a Wednesday and is a leap year.
WeeksInYear(y) ==
    LET jan1 == DaysBeforeYear(y) % 7
    IN  IF jan1 = 3 \/ (jan1 = 2 /\ IsLeap(y)) THEN 53 ELSE 52

\* The week that the ISO rule numbers before it is moved to its ISO year.
RawWeek(t) ==
    LET y == YearFrom(EpochYear, DayNumber(t))
        day_of_year == DayNumber(t) - DaysBeforeYear(y) + 1
    IN  (day_of_year - (Weekday(t) + 1) + 10) \div 7

\* .dt.isocalendar().week: the ISO week number, <NA> for NaT.
IsoWeek(t) ==
    IF t = NaT THEN NaN
    ELSE LET y == YearFrom(EpochYear, DayNumber(t))
         IN  IF RawWeek(t) < 1 THEN WeeksInYear(y - 1)
             ELSE IF RawWeek(t) > WeeksInYear(y) THEN 1
             ELSE RawWeek(t)

\* pd.to_datetime of a column value: a null or a missing value becomes NaT.
ToDatetime(v) == IF v < 0 THEN NaT ELSE v

-----------------------------------------------------------------------------
(* Records of the three collections. *)

\* The 'user' relation of a booking or a coupon: null, a bare id, or an
\* embedded object (whose 'email' may be null or missing).
UNull == [kind |-> "null", email |-> NullEmail]
UId == [kind |-> "id", email |-> NullEmail]
UObj(e) == [kind |-> "obj", email |-> e]

\* The 'slot' relation of a booking: null, a bare id, or an embedded object.
SNull == [kind |-> "null", start_time |-> NaT, end_time |-> NaT, description |-> NULL]
SId == [kind |-> "id", start_time |-> NaT, end_time |-> NaT, description |-> NULL]
SObj(s, e, d) == [kind |-> "obj", start_time |-> s, end_time |-> e, description |-> d]

\* isinstance(x, dict)
IsDict(x) == x.kind = "obj"

Guest == <<"g","@","x">>
Andre == <<"A","n","d","r","e","@","x">>

T_NOV == DateTime(2024, 11, 30, 23, 0)
T_DEC == DateTime(2024, 12, 1, 10, 0)
T_JAN == DateTime(2025, 1, 10, 10, 0)
T_CREATED == DateTime(2024, 12, 20, 9, 30)
\* Days around the turn of the ISO year: Monday 2024-12-30 and Thursday
\* 2025-01-02 (ISO week 1 of 2025), Monday 2025-12-22 (ISO week 52 of 2025)
\* and Tuesday 2025-12-30 (ISO week 1 of 2026).
T_W1_2024 == DateTime(2024, 12, 30, 10, 0)
T_W1_2025 == DateTime(2025, 1, 2, 10, 0)
T_W52_2025 == DateTime(2025, 12, 22, 10, 0)
T_W1_2026 == DateTime(2025, 12, 30, 10, 0)

\* A booking as fetched, with the fields the run derives still null.
Booking == [ user |-> UObj(Guest), flat_user_email |-> NullEmail, status |-> NULL,
             slot |-> SObj(T_DEC, T_DEC + 60, "Bastu"),
             flat_slot_start_time |-> NaT, flat_slot_end_time |-> NaT,
             flat_slot_description |-> NULL,
             start_time |-> NaT, end_time |-> NaT, description |-> NULL,
             date_created |-> T_CREATED, booked_seats |-> 2, coupon |-> NULL,
             user_email |-> NullEmail,
             slot_start_time |-> NaT, slot_end_time |-> NaT, slot_description |-> NULL,
             year |-> NaN, month |-> NaN, week |-> NaN, day_of_week |-> NULL,
             hour_of_day |-> NaN, payment_method |-> NULL, slot_length |-> NaN,
             slot_length_category |-> [count |-> 0, suffix |-> NULL] ]

Coupon == [ user |-> UObj(Guest), flat_user_email |-> NullEmail, type |-> "period",
            start_date |-> T_DEC, user_email |-> NullEmail, year |-> NaN, month |-> NaN ]

Slot == [ start_time |-> T_DEC, available_seats |-> 4, bookings |-> <<>>,
          year |-> NaN, month |-> NaN, total_capacity |-> NaN, used_seats |-> NaN ]

\* pd.DataFrame() and pd.DataFrame([]): no columns, no rows.
EmptyFrame == [cols |-> {}, rows |-> <<>>]

\* What a request answers: a transport or HTTP fault, or the records.
FetchFault == [ok |-> FALSE, cols |-> {}, rows |-> <<>>]
Records(cols, rows) == [ok |-> TRUE, cols |-> cols, rows |-> rows]

SeqsUpTo(S, n) == UNION { [1..k -> S] : k \in 1..n }
Responses(cols, rowset) == { Records(cols, r) : r \in SeqsUpTo(rowset, MaxRows) }

-----------------------------------------------------------------------------
(* The contents of the backend that the run is checked against. *)

BaseCols == {"user", "status", "slot", "date_created", "booked_seats", "coupon"}

\* The shapes of the user relation and of status.
UserShapes ==
    Responses(BaseCols,
              { [Booking EXCEPT !.user = u, !.status = s] :
                    u \in {UNull, UId, UObj(TestAccount), UObj(Guest)},
                    s \in {NULL, "cancelled"} })
    \cup Responses((BaseCols \ {"user"}) \cup {"user.email"},
              { [Booking EXCEPT !.user = UNull, !.flat_user_email = e] :
                    e \in {TestAccount, Guest, NullEmail} })
    \cup Responses(BaseCols \cup {"user.email"},
              { [Booking EXCEPT !.user = UId, !.flat_user_email = e] :
                    e \in {TestAccount, Guest} })
    \cup Responses(BaseCols \ {"user", "status"},
              { [Booking EXCEPT !.user = UNull] })

\* The embedded slot objects: whole and half hours, an empty and a reversed
\* interval, null times, a missing key.
SlotObjects ==
    { SObj(T_DEC, T_DEC + 60, "Bastu"), SObj(T_NOV, T_NOV + 60, "Bastu"),
      SObj(T_JAN, T_JAN + 120, NULL), SObj(T_JAN, T_JAN + 180, "Bastu"),
      SObj(T_DEC, T_DEC, "Bastu"), SObj(T_DEC, T_DEC - 60, "Bastu"),
      SObj(T_DEC, T_DEC + 30, "Bastu"), SObj(T_DEC, T_DEC + 90, "Bastu"),
      SObj(T_DEC, T_DEC + 150, "Bastu"),
      SObj(NaT, NaT, "Bastu"), SObj(T_DEC, NoTimeKey, NOKEY) }

\* The shapes of the slot relation.
SlotShapes ==
    Responses(BaseCols,
              { [Booking EXCEPT !.slot = s] : s \in SlotObjects \cup {SNull, SId} })
    \cup Responses(BaseCols \cup {"slot.start_time", "slot.end_time", "slot.description"},
              { [Booking EXCEPT !.slot = s, !.flat_slot_start_time = t[1],
                                !.flat_slot_end_time = t[2],
                                !.flat_slot_description = "Bastu"] :
                    s \in {SId, SObj(NaT, NaT, NULL)},
                    t \in {<<T_DEC, T_DEC + 60>>, <<NaT, NaT>>} })
    \cup Responses((BaseCols \ {"slot"}) \cup {"slot.start_time", "slot.end_time"},
              { [Booking EXCEPT !.slot = SNull, !.flat_slot_start_time = t[1],
                                !.flat_slot_end_time = t[2]] :
                    t \in {<<T_DEC, T_DEC + 60>>, <<NaT, NaT>>} })
    \cup Responses(BaseCols \cup {"start_time", "end_time"},
              { [Booking EXCEPT !.slot = SObj(NoTimeKey, NoTimeKey, "Bastu"),
                                !.start_time = T_JAN, !.end_time = T_JAN + 60] })
    \cup Responses((BaseCols \ {"slot"}) \cup {"start_time", "end_time"},
              { [Booking EXCEPT !.slot = SNull, !.start_time = T_JAN,
                                !.end_time = T_JAN + 60] })
    \cup Responses(BaseCols \ {"slot"}, { [Booking EXCEPT !.slot = SNull] })
    \cup Responses({"booked_seats"},
              { [Booking EXCEPT !.slot = SNull, !.user = UNull, !.date_created = NaT] })

\* The seat counts of the bookings: given, null, or not fetched at all; with
\* and without a coupon.
SeatShapes ==
    Responses(BaseCols,
              { [Booking EXCEPT !.booked_seats = b, !.slot = s, !.coupon = c] :
                    b \in {1, 10, NaN},
                    s \in {SObj(T_DEC, T_DEC + 60, "Bastu"), SObj(T_JAN, T_JAN + 120, "Bastu")},
                    c \in {NULL, "kort"} })
    \cup Responses(BaseCols \ {"booked_seats", "coupon"},
              { [Booking EXCEPT !.booked_seats = NaN, !.slot = s] :
                    s \in {SObj(T_DEC, T_DEC + 60, "Bastu"), SObj(T_JAN, T_JAN + 120, "Bastu")} })

\* Bookings of slots around the turn of the year.
WeekShapes ==
    Responses(BaseCols,
              { [Booking EXCEPT !.slot = SObj(t, t + 60, "Bastu")] :
                    t \in {T_W1_2024, T_W1_2025, T_W52_2025, T_W1_2026} })

CouponShapes ==
    Responses({"user", "type", "start_date"},
              { [Coupon EXCEPT !.user = u, !.type = t] :
                    u \in {UNull, UId, UObj(Andre), UObj(Guest), UObj(NullEmail)},
                    t \in {"period", "klipp"} })
    \cup Responses({"user.email", "type", "start_date"},
              { [Coupon EXCEPT !.user = UNull, !.flat_user_email = e] :
                    e \in {Andre, Guest} })
    \cup Responses({"user", "start_date"}, { Coupon })

SlotRecords ==
    Responses({"start_time", "available_seats", "bookings"},
              { [Slot EXCEPT !.start_time = t, !.available_seats = a, !.bookings = <<3>>] :
                    t \in {T_NOV, T_DEC, T_JAN}, a \in {0, 4, 10, NaN} })
    \cup Responses({"start_time", "available_seats", "bookings"},
              { [Slot EXCEPT !.available_seats = a] : a \in {4, NonNumeric} })
    \cup Responses({"start_time", "bookings"},
              { [Slot EXCEPT !.start_time = t, !.available_seats = NaN, !.bookings = b] :
                    t \in {T_DEC, T_JAN}, b \in {<<>>, <<3>>, <<2, NonNumeric>>} })
    \cup Responses({"available_seats"},
              { [Slot EXCEPT !.start_time = NaT] })

\* One usable answer per collection.
SomeBookings == Records(BaseCols, <<Booking>>)
SomeCoupons == Records({"user", "type", "start_date"}, <<Coupon>>)
SomeSlots == Records({"start_time", "available_seats", "bookings"}, <<Slot>>)

\* A usable answer, an answer with no records, or a fault.
Outcomes(some) == { some, Records({}, <<>>), FetchFault }

Backend(b, c, s) == [bookings |-> b, coupons |-> c, slots |-> s]

\* Every combination of outcomes of the three requests, and every shape of one
\* collection beside usable answers for the two others.
Backends ==
    { Backend(b, c, s) : b \in Outcomes(SomeBookings), c \in Outcomes(SomeCoupons),
                         s \in Outcomes(SomeSlots) }
    \cup { Backend(b, SomeCoupons, SomeSlots) : b \in UserShapes \cup SlotShapes \cup SeatShapes \cup WeekShapes }
    \cup { Backend(SomeBookings, c, SomeSlots) : c \in CouponShapes }
    \cup { Backend(SomeBookings, SomeCoupons, s) : s \in SlotRecords }

-----------------------------------------------------------------------------
(* DataFrame operations. *)

\* df.empty
IsEmpty(t) == Len(t.rows) = 0

\* The rows whose entry of the boolean mask is true, in order.
RECURSIVE Masked(_, _)
Masked(rows, mask) ==
    IF Len(rows) = 0 THEN <<>>
    ELSE (IF Head(mask) THEN <<Head(rows)>> ELSE <<>>) \o Masked(Tail(rows), Tail(mask))

\* df[mask]
Filter(t, mask) == [t EXCEPT !.rows = Masked(t.rows, mask)]

\* df[col] = f(row), row by row
Assign(t, col, rows) == [cols |-> t.cols \cup {col}, rows |-> rows]

Range(f) == { f[i] : i \in DOMAIN f }

-----------------------------------------------------------------------------
(* fetch_from_directus and the three loaders. *)

\* A fault is caught and answered by an empty DataFrame.
fetch_from_directus(response) ==
    IF response.ok THEN [cols |-> response.cols, rows |-> response.rows] ELSE EmptyFrame

\* st.error(f"Failed to fetch {collection_name} data: ...")
FetchSignals(response, collection_name) ==
    IF response.ok THEN {} ELSE {<<"Failed to fetch", collection_name>>}

\* isinstance(user.iloc[0], dict) and 'email' in user.iloc[0]
FirstUserHasEmail(t) == IsDict(t.rows[1].user) /\ t.rows[1].user.email # NoEmailKey

\* x.get('email') if isinstance(x, dict) else None
EmailOf(x) == IF IsDict(x) /\ x.email # NoEmailKey THEN x.email ELSE NullEmail

\* Which source the user e-mail is taken from: the flat 'user.email' column is
\* looked at only when there is no 'user' column at all.
UserEmailSource(t) ==
    IF "user" \in t.cols
    THEN (IF FirstUserHasEmail(t) THEN "user" ELSE "none")
    ELSE IF "user.email" \in t.cols THEN "user.email" ELSE "none"

user_email_found(t) == UserEmailSource(t) # "none"

\* The frame with its user_email column.
WithUserEmail(t) ==
    Assign(t, "user_email",
           [i \in 1..Len(t.rows) |->
               [t.rows[i] EXCEPT !.user_email =
                   CASE UserEmailSource(t) = "user" -> EmailOf(t.rows[i].user)
                     [] UserEmailSource(t) = "user.email" -> t.rows[i].flat_user_email
                     [] OTHER -> Unknown]])

\* df['user_email'] != 'frej.andreassen@gmail.com'
NotTestAccount(t) == [i \in 1..Len(t.rows) |-> t.rows[i].user_email # TestAccount]

\* df['status'].isnull()
StatusIsNull(t) == [i \in 1..Len(t.rows) |-> t.rows[i].status = NULL]

\* The e-mail filter of the bookings, applied when an e-mail was found.
FilterTestAccount(t) == IF user_email_found(t) THEN Filter(t, NotTestAccount(t)) ELSE t

\* The status filter of the bookings, applied when there is a status column.
FilterStatus(t) == IF "status" \in t.cols THEN Filter(t, StatusIsNull(t)) ELSE t

load_bookings_data(response) ==
    LET fetched == fetch_from_directus(response)
    IN  IF IsEmpty(fetched) THEN fetched
        ELSE FilterStatus(FilterTestAccount(WithUserEmail(fetched)))

\* user_email.str.lower().str.contains('frej|andre|oscar|charl|jenny')
IsExcludedUser(email) == \E frag \in excluded_users : Contains(Lower(email), frag)
NotExcludedUser(t) == [i \in 1..Len(t.rows) |-> ~IsExcludedUser(t.rows[i].user_email)]

\* For a null e-mail str.contains answers NaN, and ~ of a column that holds a
\* NaN raises TypeError (object columns).
ExclusionRaises(t) == \E i \in 1..Len(t.rows) : t.rows[i].user_email = NullEmail

\* The exclusion filter of the coupons; a raise inside it is caught and the
\* frame is kept as it was.
FilterExcludedUsers(t) == IF ExclusionRaises(t) THEN t ELSE Filter(t, NotExcludedUser(t))

load_coupons_data(response) ==
    LET fetched == fetch_from_directus(response)
    IN  IF IsEmpty(fetched) THEN fetched
        ELSE LET resolved == WithUserEmail(fetched)
             IN  IF user_email_found(fetched) THEN FilterExcludedUsers(resolved) ELSE resolved

load_slots_data(response) == fetch_from_directus(response)

-----------------------------------------------------------------------------
(* Slot fields of the bookings. *)

HasStartKey(x) == x.start_time # NoTimeKey
HasEndKey(x) == x.end_time # NoTimeKey

\* The strategy that sets slot_fields_found, in the order the code tries them.
SlotStrategy(t) ==
    IF "slot" \in t.cols /\ Len(t.rows) > 0 /\ IsDict(t.rows[1].slot)
       /\ HasStartKey(t.rows[1].slot) /\ HasEndKey(t.rows[1].slot)
    THEN "embedded"
    ELSE IF "slot.start_time" \in t.cols /\ "slot.end_time" \in t.cols
    THEN "flat"
    ELSE IF "slot" \in t.cols /\ IsDict(t.rows[1].slot)
    THEN "embedded_checked"
    ELSE IF "start_time" \in t.cols /\ "end_time" \in t.cols
    THEN "top_level"
    ELSE IF "date_created" \in t.cols
    THEN "date_created"
    ELSE "dummy"

\* x.get(key) if isinstance(x, dict) else None; also x[key] if key in x else None
SlotTime(x, v) == IF IsDict(x) /\ v # NoTimeKey THEN v ELSE NaT

\* x.get('description', '') if isinstance(x, dict) else ''
SlotDescription(x) == IF IsDict(x) /\ x.description # NOKEY THEN x.description ELSE ""

\* pd.to_datetime('2024-01-01')
DummyDate == DateTime(2024, 1, 1, 0, 0)

\* t + pd.Timedelta(hours=1)
PlusOneHour(t) == IF t = NaT THEN NaT ELSE t + 60

\* One row's slot fields under a strategy, before the final to_datetime.
SlotFields(row, strategy, cols) ==
    CASE strategy \in {"embedded", "embedded_checked"} ->
           [start |-> SlotTime(row.slot, row.slot.start_time),
            end |-> SlotTime(row.slot, row.slot.end_time),
            description |-> SlotDescription(row.slot)]
      [] strategy = "flat" ->
           [start |-> row.flat_slot_start_time, end |-> row.flat_slot_end_time,
            description |-> IF "slot.description" \in cols THEN row.flat_slot_description ELSE ""]
      [] strategy = "top_level" ->
           [start |-> row.start_time, end |-> row.end_time,
            description |-> IF "description" \in cols THEN row.description ELSE ""]
      [] strategy = "date_created" ->
           [start |-> ToDatetime(row.date_created),
            end |-> PlusOneHour(ToDatetime(row.date_created)),
            description |-> "Unknown"]
      [] OTHER ->
           [start |-> DummyDate, end |-> PlusOneHour(DummyDate), description |-> "Unknown"]

\* The frame with slot_start_time, slot_end_time (converted) and slot_description.
WithSlotFields(t) ==
    LET strategy == SlotStrategy(t)
    IN  [cols |-> t.cols \cup {"slot_start_time", "slot_end_time", "slot_description"},
         rows |-> [i \in 1..Len(t.rows) |->
                      LET f == SlotFields(t.rows[i], strategy, t.cols)
                      IN  [t.rows[i] EXCEPT !.slot_start_time = ToDatetime(f.start),
                                            !.slot_end_time = ToDatetime(f.end),
                                            !.slot_description = f.description]]]

\* st.warning("Could not find slot fields in the data. ...")
SlotSignals(t) ==
    IF SlotStrategy(t) \in {"date_created", "dummy"}
    THEN {<<"Could not find slot fields in the data">>} ELSE {}

-----------------------------------------------------------------------------
(* Features of the bookings. *)

\* Series.round(): to the nearest integer, a half to the even neighbour.
RoundHalfEven(num, den) ==
    LET q == num \div den
        r == num % den
    IN  IF 2 * r < den THEN q
        ELSE IF 2 * r > den THEN q + 1
        ELSE IF q % 2 = 0 THEN q ELSE q + 1

\* (slot_end_time - slot_start_time).dt.total_seconds() / 3600, rounded.
slot_length(row) ==
    IF row.slot_start_time = NaT \/ row.slot_end_time = NaT THEN NaN
    ELSE RoundHalfEven(row.slot_end_time - row.slot_start_time, 60)

\* f"{int(x)} timme" if x <= 1 else (f"{int(x)} timmar" if x <= 2 else "3+ timmar");
\* every comparison with NaN is false.
slot_length_category(x) ==
    IF x # NaN /\ x <= 1 THEN [count |-> x, suffix |-> " timme"]
    ELSE IF x # NaN /\ x <= 2 THEN [count |-> x, suffix |-> " timmar"]
    ELSE [count |-> 3, suffix |-> "+ timmar"]

\* 'Periodkort/klippkort' if pd.notna(x) else 'Swish'; 'Unknown' without the column.
payment_method(row, cols) ==
    IF "coupon" \notin cols THEN "Unknown"
    ELSE IF row.coupon # NULL THEN "Periodkort/klippkort" ELSE "Swish"

\* st.warning("Could not find coupon field in the data")
FeatureSignals(t) ==
    IF "coupon" \in t.cols THEN {} ELSE {<<"Could not find coupon field in the data">>}

WithFeatures(t) ==
    [cols |-> t.cols \cup {"month", "year", "week", "day_of_week", "hour_of_day",
                           "payment_method", "slot_length", "slot_length_category"},
     rows |-> [i \in 1..Len(t.rows) |->
                  LET row == t.rows[i]
                  IN  [row EXCEPT !.month = DtMonth(row.slot_start_time),
                                  !.year = DtYear(row.slot_start_time),
                                  !.week = IsoWeek(row.slot_start_time),
                                  !.day_of_week = DayName(row.slot_start_time),
                                  !.hour_of_day = DtHour(row.slot_start_time),
                                  !.payment_method = payment_method(row, t.cols),
                                  !.slot_length = slot_length(row),
                                  !.slot_length_category = slot_length_category(slot_length(row))]]]

-----------------------------------------------------------------------------
(* Preprocessing of the coupons and of the slots. *)

RECURSIVE SeqSum(_)
SeqSum(s) == IF Len(s) = 0 THEN 0 ELSE Head(s) + SeqSum(Tail(s))

\* Series.sum(): NaN is skipped.
SkipNaN(v) == IF v = NaN THEN 0 ELSE v

\* if 'start_date' in coupons_df.columns: start_date, month, year
PreprocessCoupons(t) ==
    IF "start_date" \in t.cols
    THEN [cols |-> t.cols \cup {"month", "year"},
          rows |-> [i \in 1..Len(t.rows) |->
                       [t.rows[i] EXCEPT !.start_date = ToDatetime(t.rows[i].start_date),
                                         !.month = DtMonth(ToDatetime(t.rows[i].start_date)),
                                         !.year = DtYear(ToDatetime(t.rows[i].start_date))]]]
    ELSE t

\* if 'start_time' in slots_df.columns: start_time, month, year
SlotCalendar(t) ==
    IF "start_time" \in t.cols
    THEN [cols |-> t.cols \cup {"month", "year"},
          rows |-> [i \in 1..Len(t.rows) |->
                       [t.rows[i] EXCEPT !.start_time = ToDatetime(t.rows[i].start_time),
                                         !.month = DtMonth(ToDatetime(t.rows[i].start_time)),
                                         !.year = DtYear(ToDatetime(t.rows[i].start_time))]]]
    ELSE t

\* Each slot has 10 seats capacity
SeatsPerSlot == 10

\* 10 - available_seats raises TypeError when a value is not a number.
SubtractionRaises(t) ==
    "available_seats" \in t.cols
    /\ \E i \in 1..Len(t.rows) : t.rows[i].available_seats = NonNumeric

\* 10 - available_seats: NaN for a null
UsedOf(available) == IF available = NaN THEN NaN ELSE SeatsPerSlot - available

\* slots_df['total_capacity'] = 10 and slots_df['used_seats']
WithUsedSeats(t) ==
    [cols |-> t.cols \cup {"total_capacity", "used_seats"},
     rows |-> [i \in 1..Len(t.rows) |->
                  [t.rows[i] EXCEPT !.total_capacity = SeatsPerSlot,
                                    !.used_seats = IF "available_seats" \in t.cols
                                                   THEN UsedOf(t.rows[i].available_seats)
                                                   ELSE 0]]]

\* st.warning("Could not find available_seats in slots data")
UsedSeatsSignals(t) ==
    IF "available_seats" \in t.cols THEN {} ELSE {<<"Could not find available_seats in slots data">>}

-----------------------------------------------------------------------------
(* Summary metrics and the monthly bookings. *)

\* df['slot_start_time'].max().strftime(...) raises for NaT, the maximum of a
\* column that holds nothing else.
LatestDateRaises(t) == \A i \in 1..Len(t.rows) : t.rows[i].slot_start_time = NaT

BookedSeats(row) == SkipNaN(row.booked_seats)

\* slots_df['total_capacity'].sum() and slots_df['used_seats'].sum()
TotalCapacity(t) == SeqSum([i \in 1..Len(t.rows) |-> SkipNaN(t.rows[i].total_capacity)])
TotalUsedSeats(t) == SeqSum([i \in 1..Len(t.rows) |-> SkipNaN(t.rows[i].used_seats)])

total_booked_seats(t) ==
    IF "booked_seats" \in t.cols
    THEN SeqSum([i \in 1..Len(t.rows) |-> BookedSeats(t.rows[i])])
    ELSE Len(t.rows)

\* st.warning("Could not find booked_seats in bookings data")
SeatSignals(t) ==
    IF "booked_seats" \in t.cols THEN {} ELSE {<<"Could not find booked_seats in bookings data">>}

Summary(bookings, slots) ==
    [total_bookings |-> Len(bookings.rows),
     total_booked_seats |-> total_booked_seats(bookings),
     total_capacity |-> TotalCapacity(slots),
     total_used_seats |-> TotalUsedSeats(slots)]

\* A slip: the month of the start boundary forgotten.
FromYear2024(r) == r.year >= 2024

\* (year > 2024) | ((year == 2024) & (month >= 12))
FromDecember2024(r) == r.year > 2024 \/ (r.year = 2024 /\ r.month >= 12)

month_order(r) == r.year * 12 + r.month

\* sort_values('month_order') of rows whose month_order differ.
RECURSIVE SortByMonthOrder(_)
SortByMonthOrder(S) ==
    IF S = {} THEN <<>>
    ELSE LET first == CHOOSE r \in S : \A q \in S : month_order(r) <= month_order(q)
         IN  <<first>> \o SortByMonthOrder(S \ {first})

\* The keys of groupby(['year', 'month']): rows with a NaN key are dropped.
MonthKeys(t) ==
    { <<t.rows[i].year, t.rows[i].month>> : i \in { j \in 1..Len(t.rows) : t.rows[j].year # NaN } }

\* groupby(['year', 'month'])['booked_seats'].sum(), or .size()
MonthlyGroups(t) ==
    { [year |-> k[1], month |-> k[2],
       booked_seats |->
           SeqSum([i \in 1..Len(t.rows) |->
                      IF t.rows[i].year = k[1] /\ t.rows[i].month = k[2]
                      THEN (IF "booked_seats" \in t.cols THEN BookedSeats(t.rows[i]) ELSE 1)
                      ELSE 0])] : k \in MonthKeys(t) }

MonthlyBookings(t) == SortByMonthOrder({ r \in MonthlyGroups(t) : FromDecember2024(r) })

\* One booking's share of a sum of booked_seats, or of a size().
SeatsOf(t, i) == IF "booked_seats" \in t.cols THEN BookedSeats(t.rows[i]) ELSE 1

\* df_filtered.groupby(['year', 'week']): the rows from December 2024 on; a
\* row with a NaN key is in no group.
WeekKeys(t) ==
    { <<t.rows[i].year, t.rows[i].week>> :
          i \in { j \in 1..Len(t.rows) : FromDecember2024(t.rows[j]) } }

WeeklyGroups(t) ==
    { [year |-> k[1], week |-> k[2],
       booked_seats |->
           SeqSum([i \in 1..Len(t.rows) |->
                      IF t.rows[i].year = k[1] /\ t.rows[i].week = k[2]
                      THEN SeatsOf(t, i) ELSE 0])] : k \in WeekKeys(t) }

\* weekly_bookings['year'] * 52 + weekly_bookings['week']
week_order(r) == r.year * 52 + r.week

\* sort_values('week_order'); rows of one week_order stay in the order of
\* their group keys.
RECURSIVE SortByWeekOrder(_)
SortByWeekOrder(S) ==
    IF S = {} THEN <<>>
    ELSE LET first == CHOOSE r \in S : \A q \in S :
                          \/ week_order(r) < week_order(q)
                          \/ week_order(r) = week_order(q) /\ r.year <= q.year
         IN  <<first>> \o SortByWeekOrder(S \ {first})

WeeklyBookings(t) == SortByWeekOrder(WeeklyGroups(t))

\* df.groupby(['hour_of_day', 'slot_length_category']): a row with a NaN
\* hour is in no group.
HourKeys(t) ==
    { <<t.rows[i].hour_of_day, t.rows[i].slot_length_category>> :
          i \in { j \in 1..Len(t.rows) : t.rows[j].hour_of_day # NaN } }

HourlyBookings(t) ==
    { [hour_of_day |-> k[1], slot_length_category |-> k[2],
       booked_seats |->
           SeqSum([i \in 1..Len(t.rows) |->
                      IF t.rows[i].hour_of_day = k[1] /\ t.rows[i].slot_length_category = k[2]
                      THEN SeatsOf(t, i) ELSE 0])] : k \in HourKeys(t) }

\* df.groupby('day_of_week'): a row with a NaN day is in no group.
DayKeys(t) ==
    { t.rows[i].day_of_week : i \in { j \in 1..Len(t.rows) : t.rows[j].day_of_week # NULL } }

DailyGroups(t) ==
    { [day_of_week |-> k,
       booked_seats |->
           SeqSum([i \in 1..Len(t.rows) |->
                      IF t.rows[i].day_of_week = k THEN SeatsOf(t, i) ELSE 0])] : k \in DayKeys(t) }

\* The place of a day in day_order.
DayIndex(name) == CHOOSE i \in 1..Len(day_order) : day_order[i] = name

\* sort_values('day_of_week') of the categorical ordered by day_order.
RECURSIVE SortByDayOrder(_)
SortByDayOrder(S) ==
    IF S = {} THEN <<>>
    ELSE LET first == CHOOSE r \in S : \A q \in S :
                          DayIndex(r.day_of_week) <= DayIndex(q.day_of_week)
         IN  <<first>> \o SortByDayOrder(S \ {first})

DailyBookings(t) == SortByDayOrder(DailyGroups(t))

\* coupons_df.groupby(['type']).size(), when there is a type column
TypeCount(t, type) == Cardinality({ i \in 1..Len(t.rows) : t.rows[i].type = type })

KortUsage(t) ==
    IF "type" \in t.cols
    THEN { [type |-> ty, count |-> TypeCount(t, ty)] :
               ty \in { t.rows[i].type : i \in 1..Len(t.rows) } }
    ELSE {}

-----------------------------------------------------------------------------
(* Slot utilization. *)

\* if 'year' not in columns or 'month' not in columns: ...
EnsureCalendar(t) ==
    IF "year" \notin t.cols \/ "month" \notin t.cols
    THEN IF "start_time" \in t.cols
         THEN SlotCalendar(t)
         ELSE [cols |-> t.cols \cup {"year", "month"},
               rows |-> [i \in 1..Len(t.rows) |-> [t.rows[i] EXCEPT !.year = 2024, !.month = 1]]]
    ELSE t

FillNa(v, d) == IF v = NaN THEN d ELSE v

\* pd.to_numeric(..., errors='coerce').fillna(...)
EnsureNumeric(t) ==
    [t EXCEPT !.rows = [i \in 1..Len(t.rows) |->
        [t.rows[i] EXCEPT !.year = FillNa(t.rows[i].year, 2024),
                          !.month = FillNa(t.rows[i].month, 1),
                          !.total_capacity = FillNa(t.rows[i].total_capacity, SeatsPerSlot),
                          !.used_seats = FillNa(t.rows[i].used_seats, 0)]]]

\* The seats of the embedded bookings that carry a numeric seat count.
count_booked_seats(bookings) ==
    SeqSum([i \in 1..Len(bookings) |-> IF bookings[i] = NonNumeric THEN 0 ELSE bookings[i]])

\* if 'bookings' in columns and 'used_seats' not in columns: used_seats from
\* the embedded bookings
CountEmbedded(t) ==
    IF "bookings" \in t.cols /\ "used_seats" \notin t.cols
    THEN [cols |-> t.cols \cup {"used_seats"},
          rows |-> [i \in 1..Len(t.rows) |->
                       [t.rows[i] EXCEPT !.used_seats = count_booked_seats(t.rows[i].bookings)]]]
    ELSE t

PreparedSlots(t) == CountEmbedded(EnsureNumeric(EnsureCalendar(t)))

\* A slip: the rate of the unused seats instead of the used ones.
utilization_rate_of_unused(used, capacity) ==
    IF capacity > 0 THEN RoundHalfEven((capacity - used) * 10000, capacity) ELSE 0

\* (used_seats / total_capacity * 100).round(2) if total_capacity > 0 else 0,
\* in hundredths of a percent.
utilization_rate(used, capacity) ==
    IF capacity > 0 THEN RoundHalfEven(used * 10000, capacity) ELSE 0

UtilizationRow(t, k) ==
    LET cap == SeqSum([i \in 1..Len(t.rows) |->
                   IF t.rows[i].year = k[1] /\ t.rows[i].month = k[2] THEN t.rows[i].total_capacity ELSE 0])
        used == SeqSum([i \in 1..Len(t.rows) |->
                   IF t.rows[i].year = k[1] /\ t.rows[i].month = k[2] THEN t.rows[i].used_seats ELSE 0])
    IN  [year |-> k[1], month |-> k[2], total_capacity |-> cap, used_seats |-> used,
         unused_seats |-> cap - used, utilization_rate |-> utilization_rate(used, cap)]

\* slots_df.groupby(['year', 'month']).agg(...) with unused_seats and utilization_rate
MonthlyUtilization(t) == { UtilizationRow(t, k) : k \in MonthKeys(t) }

\* The table substituted when the utilization calculations raise.
FallbackUtilization ==
    { [year |-> 2024, month |-> 12, total_capacity |-> 100, used_seats |-> 50,
       unused_seats |-> 50, utilization_rate |-> 50 * 100],
      [year |-> 2025, month |-> 1, total_capacity |-> 100, used_seats |-> 60,
       unused_seats |-> 40, utilization_rate |-> 60 * 100] }

\* monthly_slots filtered from December 2024 and sorted
MonthlySlots(groups) == SortByMonthOrder({ r \in groups : FromDecember2024(r) })

-----------------------------------------------------------------------------
(* The run. *)

NoSummary == [total_bookings |-> 0, total_booked_seats |-> 0,
              total_capacity |-> 0, total_used_seats |-> 0]

Init ==
    /\ directus \in Backends
    /\ pc = "load_bookings"
    /\ df = EmptyFrame
    /\ coupons_df = EmptyFrame
    /\ slots_df = EmptyFrame
    /\ signals = {}
    /\ summary = NoSummary
    /\ monthly_bookings = <<>>
    /\ weekly_bookings = <<>>
    /\ hourly_bookings = {}
    /\ daily_bookings = <<>>
    /\ kort_usage = {}
    /\ monthly_slots = <<>>

\* df = load_bookings_data()
LoadBookings ==
    /\ pc = "load_bookings"
    /\ df' = load_bookings_data(directus.bookings)
    /\ signals' = signals \cup FetchSignals(directus.bookings, "bookings")
    /\ pc' = "load_coupons"
    /\ UNCHANGED <<directus, coupons_df, slots_df, summary, monthly_bookings, kort_usage, monthly_slots, weekly_bookings, hourly_bookings, daily_bookings>>

\* coupons_df = load_coupons_data()
LoadCoupons ==
    /\ pc = "load_coupons"
    /\ coupons_df' = load_coupons_data(directus.coupons)
    /\ signals' = signals \cup FetchSignals(directus.coupons, "coupons")
    /\ pc' = "load_slots"
    /\ UNCHANGED <<directus, df, slots_df, summary, monthly_bookings, kort_usage, monthly_slots, weekly_bookings, hourly_bookings, daily_bookings>>

\* slots_df = load_slots_data()
LoadSlots ==
    /\ pc = "load_slots"
    /\ slots_df' = load_slots_data(directus.slots)
    /\ signals' = signals \cup FetchSignals(directus.slots, "slots")
    /\ pc' = "verify"
    /\ UNCHANGED <<directus, df, coupons_df, summary, monthly_bookings, kort_usage, monthly_slots, weekly_bookings, hourly_bookings, daily_bookings>>

\* A slip: 'and' for 'or' in the emptiness check.
AllEmpty == IsEmpty(df) /\ IsEmpty(coupons_df) /\ IsEmpty(slots_df)

\* if df.empty or coupons_df.empty or slots_df.empty: st.error(...); st.stop()
AnyEmpty == IsEmpty(df) \/ IsEmpty(coupons_df) \/ IsEmpty(slots_df)

VerifyLoaded ==
    /\ pc = "verify"
    /\ IF AnyEmpty
       THEN /\ signals' = signals \cup {<<"Failed to load data from Directus">>}
            /\ pc' = "stopped"
       ELSE /\ signals' = signals
            /\ pc' = "slot_fields"
    /\ UNCHANGED <<directus, df, coupons_df, slots_df, summary, monthly_bookings, kort_usage, monthly_slots, weekly_bookings, hourly_bookings, daily_bookings>>

\* st.error(f"An error occurred while processing the data: ...")
ProcessingError == <<"An error occurred while processing the data">>

\* Slot fields of the bookings (slot_start_time, slot_end_time, slot_description).
ResolveSlotFields ==
    /\ pc = "slot_fields"
    /\ df' = WithSlotFields(df)
    /\ signals' = signals \cup SlotSignals(df)
    /\ pc' = "features"
    /\ UNCHANGED <<directus, coupons_df, slots_df, summary, monthly_bookings, kort_usage, monthly_slots, weekly_bookings, hourly_bookings, daily_bookings>>

\* Feature engineering for the bookings.
DeriveFeatures ==
    /\ pc = "features"
    /\ df' = WithFeatures(df)
    /\ signals' = signals \cup FeatureSignals(df)
    /\ pc' = "preprocess"
    /\ UNCHANGED <<directus, coupons_df, slots_df, summary, monthly_bookings, kort_usage, monthly_slots, weekly_bookings, hourly_bookings, daily_bookings>>

\* Preprocessing of the coupons and the slots; a raise ends the processing in
\* the outer handler.
Preprocess ==
    /\ pc = "preprocess"
    /\ coupons_df' = PreprocessCoupons(coupons_df)
    /\ IF SubtractionRaises(slots_df)
       THEN /\ slots_df' = [SlotCalendar(slots_df) EXCEPT !.cols = @ \cup {"total_capacity"},
                              !.rows = [i \in 1..Len(@) |-> [@[i] EXCEPT !.total_capacity = SeatsPerSlot]]]
            /\ signals' = signals \cup {ProcessingError}
            /\ pc' = "aborted"
       ELSE /\ slots_df' = WithUsedSeats(SlotCalendar(slots_df))
            /\ signals' = signals \cup UsedSeatsSignals(slots_df)
            /\ pc' = "summary"
    /\ UNCHANGED <<directus, df, summary, monthly_bookings, kort_usage, monthly_slots, weekly_bookings, hourly_bookings, daily_bookings>>

\* The latest booking date and the key metrics.
Summarize ==
    /\ pc = "summary"
    /\ IF LatestDateRaises(df)
       THEN /\ summary' = summary
            /\ signals' = signals \cup {ProcessingError}
            /\ pc' = "aborted"
       ELSE /\ summary' = Summary(df, slots_df)
            /\ signals' = signals \cup SeatSignals(df)
            /\ pc' = "bookings_by_month"
    /\ UNCHANGED <<directus, df, coupons_df, slots_df, monthly_bookings, kort_usage, monthly_slots, weekly_bookings, hourly_bookings, daily_bookings>>

\* Bookings by month.
BookingsByMonth ==
    /\ pc = "bookings_by_month"
    /\ monthly_bookings' = MonthlyBookings(df)
    /\ pc' = "bookings_by_week"
    /\ UNCHANGED <<directus, df, coupons_df, slots_df, signals, summary, kort_usage, monthly_slots, weekly_bookings, hourly_bookings, daily_bookings>>

\* Bookings by week.
BookingsByWeek ==
    /\ pc = "bookings_by_week"
    /\ weekly_bookings' = WeeklyBookings(df)
    /\ pc' = "bookings_by_hour"
    /\ UNCHANGED <<directus, df, coupons_df, slots_df, signals, summary, monthly_bookings,
                   hourly_bookings, daily_bookings, kort_usage, monthly_slots>>

\* Bookings by time of day and slot length.
BookingsByHour ==
    /\ pc = "bookings_by_hour"
    /\ hourly_bookings' = HourlyBookings(df)
    /\ pc' = "bookings_by_day"
    /\ UNCHANGED <<directus, df, coupons_df, slots_df, signals, summary, monthly_bookings,
                   weekly_bookings, daily_bookings, kort_usage, monthly_slots>>

\* Bookings by day of the week.
BookingsByDay ==
    /\ pc = "bookings_by_day"
    /\ daily_bookings' = DailyBookings(df)
    /\ pc' = "coupon_types"
    /\ UNCHANGED <<directus, df, coupons_df, slots_df, signals, summary, monthly_bookings,
                   weekly_bookings, hourly_bookings, kort_usage, monthly_slots>>

\* Periodkort/klippkort per type.
CouponTypes ==
    /\ pc = "coupon_types"
    /\ kort_usage' = KortUsage(coupons_df)
    /\ pc' = "utilization"
    /\ UNCHANGED <<directus, df, coupons_df, slots_df, signals, summary, monthly_bookings, monthly_slots, weekly_bookings, hourly_bookings, daily_bookings>>

\* The utilization calculations, when no statement of the try block raises.
Utilization ==
    /\ pc = "utilization"
    /\ slots_df' = PreparedSlots(slots_df)
    /\ monthly_slots' = MonthlySlots(MonthlyUtilization(PreparedSlots(slots_df)))
    /\ pc' = "totals"
    /\ UNCHANGED <<directus, df, coupons_df, signals, summary, monthly_bookings, kort_usage, weekly_bookings, hourly_bookings, daily_bookings>>

\* A statement of the try block raises (the handler catches every Exception):
\* before or after the columns were made numeric.  No record of the backend
\* decides it, so it is the environment's choice.
UtilizationRaises ==
    /\ pc = "utilization"
    /\ slots_df' \in {slots_df, EnsureNumeric(EnsureCalendar(slots_df))}
    /\ monthly_slots' = MonthlySlots(FallbackUtilization)
    /\ signals' = signals \cup {<<"Error in utilization calculations">>}
    /\ pc' = "totals"
    /\ UNCHANGED <<directus, df, coupons_df, summary, monthly_bookings, kort_usage, weekly_bookings, hourly_bookings, daily_bookings>>

\* Total utilization over the slots.
Totals ==
    /\ pc = "totals"
    /\ summary' = [summary EXCEPT !.total_capacity = TotalCapacity(slots_df),
                                  !.total_used_seats = TotalUsedSeats(slots_df)]
    /\ pc' = "done"
    /\ UNCHANGED <<directus, df, coupons_df, slots_df, signals, monthly_bookings, kort_usage, monthly_slots, weekly_bookings, hourly_bookings, daily_bookings>>

Next ==
    \/ LoadBookings \/ LoadCoupons \/ LoadSlots \/ VerifyLoaded
    \/ ResolveSlotFields \/ DeriveFeatures \/ Preprocess \/ Summarize
    \/ BookingsByMonth \/ BookingsByWeek \/ BookingsByHour \/ BookingsByDay
    \/ CouponTypes \/ Utilization \/ UtilizationRaises \/ Totals

Spec == Init /\ [][Next]_vars

-----------------------------------------------------------------------------
(* Properties of the run. *)

\* The run is past the calculation of used_seats and no calculation raised.
UtilizationDone ==
    pc \in {"totals", "done"} /\ <<"Error in utilization calculations">> \notin signals

\* C1 (as claimed): for every slot record used_seats is 10 - available_seats
\* when available_seats is present; when it is absent and the slot carries an
\* embedded list of bookings, used_seats is the sum of their numeric
\* booked_seats; only when neither is available is used_seats 0.
C1_UsedSeatsAsClaimed ==
    UtilizationDone =>
        \A i \in 1..Len(slots_df.rows) :
            LET row == slots_df.rows[i]
            IN  row.used_seats =
                    IF "available_seats" \in slots_df.cols /\ row.available_seats # NaN
                    THEN SeatsPerSlot - row.available_seats
                    ELSE IF "bookings" \in slots_df.cols
                    THEN count_booked_seats(row.bookings)
                    ELSE 0

\* The three buckets of the slot length.
LengthBuckets ==
    { [count |-> 1, suffix |-> " timme"], [count |-> 2, suffix |-> " timmar"],
      [count |-> 3, suffix |-> "+ timmar"] }

FeaturesDone == "slot_length_category" \in df.cols

\* C2 (as claimed): whatever the slot times are, slot_length_category is one
\* of the three buckets, and rounded hours <= 1 give the 1-hour bucket, <= 2
\* the 2-hour bucket, anything else the 3+ bucket.
C2_CategoryAsClaimed ==
    FeaturesDone =>
        \A i \in 1..Len(df.rows) :
            LET row == df.rows[i]
            IN  /\ row.slot_length_category \in LengthBuckets
                /\ row.slot_length_category.count =
                       IF row.slot_length # NaN /\ row.slot_length <= 1 THEN 1
                       ELSE IF row.slot_length # NaN /\ row.slot_length <= 2 THEN 2
                       ELSE 3

\* The buckets of the utilization table, before and after the December 2024
\* filter.
UtilizationBuckets ==
    Range(monthly_slots)
    \cup (IF UtilizationDone THEN MonthlyUtilization(slots_df) ELSE {})

\* 100 %, in hundredths of a percent.
FullRate == 100 * 100

\* C3 (as claimed): utilization_rate lies in [0, 100] and is 0 exactly when
\* the bucket's total_capacity is 0.
C3_RateZeroIffNoCapacity ==
    \A r \in UtilizationBuckets :
        /\ 0 <= r.utilization_rate /\ r.utilization_rate <= FullRate
        /\ (r.utilization_rate = 0 <=> r.total_capacity = 0)

\* C3 (amended): utilization_rate lies in [0, 100]; it is 0 whenever the
\* bucket's total_capacity is 0 or its used_seats is 0, and it is 0 only then
\* (or when used_seats is at most 1/20000 of the capacity, which rounds to 0.00).
C3_RateRange ==
    \A r \in UtilizationBuckets :
        /\ 0 <= r.utilization_rate /\ r.utilization_rate <= FullRate
        /\ (r.total_capacity = 0 \/ r.used_seats = 0) => r.utilization_rate = 0
        /\ r.utilization_rate = 0 => r.total_capacity = 0 \/ 20000 * r.used_seats <= r.total_capacity

\* C3 witness: the run ends with a bucket that has capacity, no used seat and
\* rate 0, and one with used seats and a positive rate.
C3_Witness ==
    /\ pc = "done"
    /\ \E r \in Range(monthly_slots) :
           r.total_capacity > 0 /\ r.used_seats = 0 /\ r.utilization_rate = 0
    /\ \E r \in Range(monthly_slots) : r.used_seats > 0 /\ r.utilization_rate > 0

\* The request of a collection failed or answered no records.
Unusable(response) == ~response.ok \/ Len(response.rows) = 0

LoadFailed == Unusable(directus.bookings) \/ Unusable(directus.coupons) \/ Unusable(directus.slots)

NothingComputed ==
    /\ summary = NoSummary /\ monthly_bookings = <<>> /\ kort_usage = {} /\ monthly_slots = <<>>
    /\ weekly_bookings = <<>> /\ hourly_bookings = {} /\ daily_bookings = <<>>
    /\ "slot_start_time" \notin df.cols /\ "used_seats" \notin slots_df.cols

\* C4: when the fetch of any one collection fails or answers no records, the
\* loader answers an empty table, the run never gets past the emptiness check,
\* no metric or aggregate is computed, and the run stops with the 'failed to
\* load' signal.
C4_FailedLoadStops ==
    /\ (Unusable(directus.bookings) /\ pc # "load_bookings") => df = EmptyFrame
    /\ (Unusable(directus.coupons) /\ pc \notin {"load_bookings", "load_coupons"})
           => coupons_df = EmptyFrame
    /\ (Unusable(directus.slots) /\ pc \notin {"load_bookings", "load_coupons", "load_slots"})
           => slots_df = EmptyFrame
    /\ LoadFailed =>
           /\ pc \in {"load_bookings", "load_coupons", "load_slots", "verify", "stopped"}
           /\ NothingComputed
           /\ pc = "verify" => ENABLED VerifyLoaded
           /\ pc = "stopped" => /\ <<"Failed to load data from Directus">> \in signals
                                /\ ~ENABLED Next

\* C4 witness: the bookings request fails, the two others answer records, and
\* the run has stopped.
C4_Witness ==
    /\ ~directus.bookings.ok /\ ~Unusable(directus.coupons) /\ ~Unusable(directus.slots)
    /\ ~IsEmpty(coupons_df) /\ ~IsEmpty(slots_df)
    /\ pc = "stopped"
    /\ <<"Failed to fetch", "bookings">> \in signals

\* 2024-12-01 00:00
December2024 == DateTime(2024, 12, 1, 0, 0)

OnOrAfterDecember2024(t) == t # NaT /\ t >= December2024

\* C5: every row of the monthly bookings and of the monthly utilization is of
\* December 2024 or later, and only records dated on or after 2024-12-01
\* contribute: the seats of the monthly bookings add up to the seats of those
\* bookings, the capacity of the monthly utilization to that of those slots.
C5_FromDecember2024 ==
    /\ \A r \in Range(monthly_bookings) \cup Range(monthly_slots) :
           r.year > 2024 \/ (r.year = 2024 /\ r.month = 12)
    /\ pc \in {"coupon_types", "utilization", "totals", "done"} =>
           SeqSum([k \in 1..Len(monthly_bookings) |-> monthly_bookings[k].booked_seats])
             = SeqSum([i \in 1..Len(df.rows) |->
                          IF OnOrAfterDecember2024(df.rows[i].slot_start_time)
                          THEN (IF "booked_seats" \in df.cols THEN BookedSeats(df.rows[i]) ELSE 1)
                          ELSE 0])
    /\ UtilizationDone =>
           SeqSum([k \in 1..Len(monthly_slots) |-> monthly_slots[k].total_capacity])
             = SeqSum([i \in 1..Len(slots_df.rows) |->
                          IF "start_time" \in slots_df.cols
                             /\ OnOrAfterDecember2024(slots_df.rows[i].start_time)
                          THEN SeatsPerSlot ELSE 0])

\* C5 witness: the run ends with a booking of November 2024 and one of
\* December 2024 in the table, and one row in the monthly bookings.
C5_Witness ==
    /\ pc = "done"
    /\ \E i, j \in 1..Len(df.rows) :
          /\ df.rows[i].year = 2024 /\ df.rows[i].month = 11
          /\ df.rows[j].year = 2024 /\ df.rows[j].month = 12
    /\ Len(monthly_bookings) = 1

\* C6 (as claimed): a coupon whose resolved user_email contains an
\* internal-staff fragment (case-insensitively) is never counted in the
\* coupon-type aggregation: every count is the number of coupons of the type
\* whose user_email contains none.
C6_ExcludedNeverCounted ==
    (pc \in {"utilization", "totals", "done"} /\ "type" \in coupons_df.cols) =>
        \A r \in kort_usage :
            r.count = Cardinality({ i \in 1..Len(coupons_df.rows) :
                                      /\ coupons_df.rows[i].type = r.type
                                      /\ ~IsExcludedUser(coupons_df.rows[i].user_email) })

\* The e-mail a fetched record carries for its user: that of the embedded
\* object, else that of the flat column.
CarriedEmail(row, cols) ==
    IF "user" \in cols /\ IsDict(row.user) /\ row.user.email # NoEmailKey THEN row.user.email
    ELSE IF "user.email" \in cols THEN row.flat_user_email
    ELSE NullEmail

\* C7 (as claimed): the normalised bookings hold no record whose user e-mail
\* is the operator's test account and no record with a non-null status,
\* whatever the shape of the user relation.
C7_NoTestAccountNoStatus ==
    pc # "load_bookings" =>
        \A i \in 1..Len(df.rows) :
            /\ CarriedEmail(df.rows[i], df.cols) # TestAccount
            /\ df.rows[i].status = NULL

\* The source of user_email in the stated order: the user objects, else the
\* flat column whenever it exists, else the sentinel.
StatedEmailSource(t) ==
    IF "user" \in t.cols /\ FirstUserHasEmail(t) THEN "user"
    ELSE IF "user.email" \in t.cols THEN "user.email"
    ELSE "none"

StatedEmail(row, source) ==
    CASE source = "user" -> EmailOf(row.user)
      [] source = "user.email" -> row.flat_user_email
      [] OTHER -> Unknown

\* C8 (as claimed): user_email of the bookings and of the coupons follows the
\* three steps in order, the flat 'user.email' column being used whenever the
\* user column does not hold objects with an email.
C8_EmailOrderAsClaimed ==
    /\ (pc # "load_bookings" /\ directus.bookings.ok) =>
           \A i \in 1..Len(df.rows) :
               df.rows[i].user_email
                 = StatedEmail(df.rows[i], StatedEmailSource(fetch_from_directus(directus.bookings)))
    /\ (pc \notin {"load_bookings", "load_coupons"} /\ directus.coupons.ok) =>
           \A i \in 1..Len(coupons_df.rows) :
               coupons_df.rows[i].user_email
                 = StatedEmail(coupons_df.rows[i], StatedEmailSource(fetch_from_directus(directus.coupons)))

\* C9 (as claimed): after the slot fields are resolved every booking has a
\* slot_start_time, a slot_end_time not before it, and a slot_description.
C9_SlotFieldsNeverNull ==
    "slot_start_time" \in df.cols =>
        \A i \in 1..Len(df.rows) :
            /\ df.rows[i].slot_start_time # NaT
            /\ df.rows[i].slot_end_time # NaT
            /\ df.rows[i].slot_end_time >= df.rows[i].slot_start_time
            /\ df.rows[i].slot_description # NULL

\* The processing of the slots raised: in the preprocessing (a seat count that
\* is not a number) or in the utilization calculations.
SlotProcessingRaised ==
    \/ <<"Error in utilization calculations">> \in signals
    \/ (SubtractionRaises(slots_df) /\ "total_capacity" \in slots_df.cols)

\* C10 (as claimed): when the processing of the slots raises, the run is not
\* aborted: it goes on with the fixed two-month utilization table.
C10_SlotFaultFallsBack ==
    SlotProcessingRaised =>
        /\ pc # "aborted"
        /\ monthly_slots = MonthlySlots(FallbackUtilization)

-----------------------------------------------------------------------------
(* C11 *)

\* The seats of a booking as stated: its booked_seats, and 1 when it has none.
StatedSeats(t, i) ==
    IF "booked_seats" \in t.cols /\ t.rows[i].booked_seats # NaN
    THEN t.rows[i].booked_seats ELSE 1

SummaryDone ==
    pc \in {"bookings_by_month", "bookings_by_week", "bookings_by_hour", "bookings_by_day",
            "coupon_types", "utilization", "totals", "done"}

\* Some booking of the table has a null booked_seats.
SomeSeatsMissing ==
    "booked_seats" \in df.cols /\ \E i \in 1..Len(df.rows) : df.rows[i].booked_seats = NaN

\* C11: a booking without booked_seats counts as one seat.  The total booked
\* seats and every row of the monthly, weekly, hourly and weekday sums are the
\* sums with 1 in the place of each missing booked_seats; when no booking
\* carries a seat count the total is the number of bookings.
C11_MissingSeatsCountOne ==
    /\ SummaryDone =>
          /\ summary.total_booked_seats = SeqSum([i \in 1..Len(df.rows) |-> StatedSeats(df, i)])
          /\ "booked_seats" \notin df.cols => summary.total_booked_seats = summary.total_bookings
    /\ \A j \in 1..Len(monthly_bookings) :
          monthly_bookings[j].booked_seats =
              SeqSum([i \in 1..Len(df.rows) |->
                         IF df.rows[i].year = monthly_bookings[j].year
                            /\ df.rows[i].month = monthly_bookings[j].month
                         THEN StatedSeats(df, i) ELSE 0])
    /\ \A j \in 1..Len(weekly_bookings) :
          weekly_bookings[j].booked_seats =
              SeqSum([i \in 1..Len(df.rows) |->
                         IF df.rows[i].year = weekly_bookings[j].year
                            /\ df.rows[i].week = weekly_bookings[j].week
                         THEN StatedSeats(df, i) ELSE 0])
    /\ \A r \in hourly_bookings :
          r.booked_seats =
              SeqSum([i \in 1..Len(df.rows) |->
                         IF df.rows[i].hour_of_day = r.hour_of_day
                            /\ df.rows[i].slot_length_category = r.slot_length_category
                         THEN StatedSeats(df, i) ELSE 0])
    /\ \A j \in 1..Len(daily_bookings) :
          daily_bookings[j].booked_seats =
              SeqSum([i \in 1..Len(df.rows) |->
                         IF df.rows[i].day_of_week = daily_bookings[j].day_of_week
                         THEN StatedSeats(df, i) ELSE 0])

-----------------------------------------------------------------------------
(* C12 *)

\* The slot start times that a record offers: of its embedded slot, of the
\* flat and the top-level columns, and its date_created.
UsableStarts(row, cols) ==
    { v \in ( (IF "slot" \in cols /\ IsDict(row.slot) /\ row.slot.end_time >= 0
               THEN {row.slot.start_time} ELSE {})
              \cup (IF {"slot.start_time", "slot.end_time"} \subseteq cols /\ row.flat_slot_end_time >= 0
                    THEN {row.flat_slot_start_time} ELSE {})
              \cup (IF {"start_time", "end_time"} \subseteq cols /\ row.end_time >= 0
                    THEN {row.start_time} ELSE {})
              \cup (IF "date_created" \in cols THEN {row.date_created} ELSE {}) ) : v >= 0 }

SlotFieldsResolved == "slot_start_time" \in df.cols

\* C12: a strategy that faults or yields unusable values does not keep the
\* later ones from being tried.  A booking that offers a valid start time (in
\* its embedded slot, the flat columns, the top-level columns or date_created)
\* ends with one of the start times it offers, never with a null time or the
\* placeholder date, and the run is not aborted for want of a slot time.
C12_LaterStrategiesTried ==
    SlotFieldsResolved =>
        /\ \A i \in 1..Len(df.rows) :
               UsableStarts(df.rows[i], df.cols) # {} =>
                   df.rows[i].slot_start_time \in UsableStarts(df.rows[i], df.cols)
        /\ (pc = "aborted" /\ LatestDateRaises(df)) =>
               \A i \in 1..Len(df.rows) : UsableStarts(df.rows[i], df.cols) = {}

-----------------------------------------------------------------------------
(* C13 *)

\* The answer with its records in another order.
Permuted(response, p) ==
    [response EXCEPT !.rows = [i \in 1..Len(response.rows) |-> response.rows[p[i]]]]

\* Two tables hold the same rows, each as often, in whatever order.
SameRows(t, u) ==
    /\ t.cols = u.cols
    /\ Len(t.rows) = Len(u.rows)
    /\ \A r \in Range(t.rows) \cup Range(u.rows) :
           Cardinality({ i \in 1..Len(t.rows) : t.rows[i] = r })
               = Cardinality({ i \in 1..Len(u.rows) : u.rows[i] = r })

\* C13: the canonical values of a booking (user_email, slot_start_time,
\* slot_end_time, slot_description) and its survival of the filters do not
\* depend on its place in the answer: the bookings fetched in any other order
\* load to the same rows, and their slot fields resolve to the same rows.
C13_OrderOfRecordsIrrelevant ==
    \A p \in Permutations(1..Len(directus.bookings.rows)) :
        LET other == load_bookings_data(Permuted(directus.bookings, p))
        IN  /\ pc = "load_coupons" => SameRows(other, df)
            /\ (pc = "features" /\ ~IsEmpty(other)) => SameRows(WithSlotFields(other), df)

-----------------------------------------------------------------------------
(* C14 *)

\* C14: the run halts with the load failure only when a fetch returned no
\* records.  When each of the three fetches returned at least one record the
\* run is not stopped and the failure is not reported, however many records
\* the filters remove.
C14_StopsOnlyOnEmptyFetch ==
    ~LoadFailed =>
        /\ pc # "stopped"
        /\ <<"Failed to load data from Directus">> \notin signals

-----------------------------------------------------------------------------
(* C15 *)

\* The booked_seats of a set of rows, summed.
RECURSIVE SumSeats(_)
SumSeats(S) ==
    IF S = {} THEN 0
    ELSE LET r == CHOOSE q \in S : TRUE IN r.booked_seats + SumSeats(S \ {r})

HourlyDone == pc \in {"bookings_by_day", "coupon_types", "utilization", "totals", "done"}
DailyDone == pc \in {"coupon_types", "utilization", "totals", "done"}

\* C15: every booking is counted in exactly one (hour_of_day,
\* slot_length_category) row and in exactly one weekday row, so the seats of
\* the hourly rows and the seats of the weekday rows each add up to the total
\* booked seats (the number of bookings when there are no seat counts).
C15_BucketsCoverEveryBooking ==
    /\ HourlyDone =>
          /\ \A i \in 1..Len(df.rows) :
                 Cardinality({ r \in hourly_bookings :
                                  /\ r.hour_of_day = df.rows[i].hour_of_day
                                  /\ r.slot_length_category = df.rows[i].slot_length_category }) = 1
          /\ SumSeats(hourly_bookings) = summary.total_booked_seats
    /\ DailyDone =>
          /\ \A i \in 1..Len(df.rows) :
                 Cardinality({ j \in 1..Len(daily_bookings) :
                                  daily_bookings[j].day_of_week = df.rows[i].day_of_week }) = 1
          /\ SeqSum([j \in 1..Len(daily_bookings) |-> daily_bookings[j].booked_seats])
                 = summary.total_booked_seats

-----------------------------------------------------------------------------
(* C16 *)

\* The day number of the Monday that begins the ISO week of a timestamp.
WeekStart(t) == DayNumber(t) - Weekday(t)

WeeklyDone ==
    pc \in {"bookings_by_hour", "bookings_by_day", "coupon_types", "utilization", "totals", "done"}

\* C16: a (year, week) row of the weekly bookings holds the bookings of one
\* ISO week.  Two bookings from December 2024 on whose slots start in
\* different ISO weeks are never summed in the same row, also around the turn
\* of the year.
C16_WeeklyRowIsOneIsoWeek ==
    WeeklyDone =>
        \A i, j \in 1..Len(df.rows) :
            ( /\ FromDecember2024(df.rows[i]) /\ FromDecember2024(df.rows[j])
              /\ df.rows[i].year = df.rows[j].year
              /\ df.rows[i].week = df.rows[j].week )
            => WeekStart(df.rows[i].slot_start_time) = WeekStart(df.rows[j].slot_start_time)

====
